---- MODULE Spec2Model ----
(***************************************************************************)
(* State-machine model of the StatusPageForm component                     *)
(* (apps/web/src/components/forms/status-page-form.tsx).                   *)
(*                                                                         *)
(* Text values that the code inspects character by character (title,      *)
(* slug) are sequences of one-character strings; opaque values (icon URL,  *)
(* nextUrl, toast keys) are plain strings.                                 *)
(***************************************************************************)
EXTENDS Naturals, Sequences, FiniteSets

VARIABLES
    defaultValues,   \* prop: the draft being edited, or NoDefaults
    nextUrl,         \* prop: "" when not supplied
    taken,           \* remote: the slugs getSlugUniqueness reports as not unique
    title,           \* form field "title"
    slug,            \* form field "slug"
    icon,            \* form field "icon"
    debouncedSlug,   \* useDebounce(watchSlug, 1000)
    slugError,       \* TRUE iff the slug field carries "Already taken. ..."
    checks,          \* uniqueness queries of watchSlugChanges still in flight
    uploads,         \* uploads of handleChange still in flight (file names)
    subs,            \* the submissions so far, in order of the submit events
    lastCheck,       \* history: the slug whose watchSlugChanges query resolved last
    iconEvent        \* history: the last event of the icon field

vars == <<defaultValues, nextUrl, taken, title, slug, icon, debouncedSlug,
          slugError, checks, uploads, subs, lastCheck, iconEvent>>

propVars == <<defaultValues, nextUrl, taken>>

----------------------------------------------------------------------------
(* Bounds and input sets *)

MaxSubmits == 2

NoDefaults == [present |-> FALSE, title |-> <<>>, slug |-> <<>>, icon |-> ""]

sAbc == <<"a", "b", "c">>
sABc == <<"A", "B", "c">>
sXyz == <<"x", "-", "y", "z">>

tXyz == <<"X", " ", " ", "y", "!", "z", " ">>
tABc == <<"A", "B", "c">>

\* lastCheck before any query resolved
NoCheck == <<"none">>

\* the drafts the component may be mounted with (edit mode)
DefaultChoices ==
    { NoDefaults,
      [present |-> TRUE, title |-> tABc, slug |-> sAbc, icon |-> ""],
      [present |-> TRUE, title |-> <<>>, slug |-> sAbc, icon |-> "u1"] }

NextUrlChoices == {"", "/next"}

\* what the remote holds: nothing, the edited page's own slug (the remote
\* compares without regard to case), another page's slug, or both
TakenChoices == { {}, {sAbc, sABc}, {sXyz}, {sAbc, sABc, sXyz} }

TitleInputs == { <<>>, tXyz, tABc }

SlugInputs == { sABc, sXyz }

\* file lists the file input can deliver: null, an empty list, one file
FileLists == { "null", "empty", "a.png", "b.ico" }

Urls == { "u1", "u2" }

\* what createPage resolves with: a page with an id, or nothing
PageIds == { "7", "null" }

----------------------------------------------------------------------------
(* String helpers *)

LowerChar(c) ==
    CASE c = "A" -> "a"
      [] c = "B" -> "b"
      [] c = "X" -> "x"
      [] OTHER   -> c

toLowerCase(s) == [i \in DOMAIN s |-> LowerChar(s[i])]

IsWordChar(c) == c \in {"a", "b", "c", "x", "y", "z", "A", "B", "X", "_"}

IsSlugChar(c) == IsWordChar(c) \/ c = "-"

RECURSIVE TrimLeft(_, _)
TrimLeft(s, ch) ==
    IF s # <<>> /\ Head(s) = ch THEN TrimLeft(Tail(s), ch) ELSE s

RECURSIVE TrimRight(_, _)
TrimRight(s, ch) ==
    IF s # <<>> /\ s[Len(s)] = ch
    THEN TrimRight(SubSeq(s, 1, Len(s) - 1), ch)
    ELSE s

RECURSIVE ReplaceRuns(_, _, _)
ReplaceRuns(s, from, to) ==
    IF s = <<>> THEN <<>>
    ELSE IF Head(s) = from
         THEN <<to>> \o ReplaceRuns(TrimLeft(s, from), from, to)
         ELSE <<Head(s)>> \o ReplaceRuns(Tail(s), from, to)

slugify(str) ==
    LET lowered   == toLowerCase(str)
        trimmed   == TrimRight(TrimLeft(lowered, " "), " ")
        hyphened  == ReplaceRuns(trimmed, " ", "-")
        cleaned   == SelectSeq(hyphened, IsSlugChar)
        collapsed == ReplaceRuns(cleaned, "-", "-")
    IN  TrimRight(TrimLeft(collapsed, "-"), "-")

----------------------------------------------------------------------------
(* Remote and schema *)

\* api.page.getSlugUniqueness.query({slug})
getSlugUniqueness(s) == s \notin taken

MinSlugLen == 3

\* insertPageSchemaWithMonitors, as far as the form's fields go
SchemaValid(props) == Len(props.slug) >= MinSlugLen

----------------------------------------------------------------------------
(* The component *)

EmptyProps == [title |-> <<>>, slug |-> <<>>, icon |-> ""]

\* !defaultValues?.title
NoPreexistingTitle == defaultValues.title = <<>>

\* checkUniqueSlug comparing the slugs as they are
checkUniqueSlug_CaseSensitive(d, isUnique) ==
    isUnique \/ (defaultValues.present /\ d = defaultValues.slug)

\* the value checkUniqueSlug returns for the captured debouncedSlug d, given
\* the remote's answer
checkUniqueSlug(d, isUnique) ==
    isUnique \/
    (defaultValues.present /\ toLowerCase(d) = toLowerCase(defaultValues.slug))

\* the effect deriving the slug only while the slug field is empty
TitleEffect_KeepTyped(t, oldSlug) ==
    IF NoPreexistingTitle /\ oldSlug = <<>> THEN slugify(t) ELSE oldSlug

\* the effect without its guard on defaultValues.title
TitleEffect_Always(t, oldSlug) == slugify(t)

\* the slug field after the title -> slug effect ran for title t
TitleEffect(t, oldSlug) ==
    IF NoPreexistingTitle THEN slugify(t) ELSE oldSlug

\* the icon FormField renders the file picker or the preview with "Remove"
ShowsPicker == icon = ""

ShowsPreview == icon # ""

\* useTransition's flag: a transition started by onSubmit has not settled
isPending == \E i \in DOMAIN subs : subs[i].stage = "mutate"

Init ==
    /\ defaultValues \in DefaultChoices
    /\ nextUrl \in NextUrlChoices
    /\ taken \in TakenChoices
    /\ title = defaultValues.title
    /\ slug = TitleEffect(defaultValues.title, defaultValues.slug)
    /\ icon = defaultValues.icon
    /\ debouncedSlug = defaultValues.slug
    /\ slugError = FALSE
    /\ checks = {defaultValues.slug}
    /\ uploads = {}
    /\ subs = <<>>
    /\ lastCheck = NoCheck
    /\ iconEvent = "mount"

\* the user changes the title field; the title -> slug effect runs
SetTitle(t) ==
    /\ t # title
    /\ title' = t
    /\ slug' = TitleEffect(t, slug)
    /\ UNCHANGED <<propVars, icon, debouncedSlug, slugError, checks, uploads,
                   subs, lastCheck, iconEvent>>

\* the user changes the slug field
SetSlug(s) ==
    /\ s # slug
    /\ slug' = s
    /\ UNCHANGED <<propVars, title, icon, debouncedSlug, slugError, checks,
                   uploads, subs, lastCheck, iconEvent>>

\* useDebounce: a timer is armed whenever the watched value changes and the
\* previous one is dropped, so a timer is running iff the debounced value
\* lags behind the field
TimerPending == debouncedSlug # slug

\* the debounce timer expires: debouncedSlug takes the field's value, the
\* checkUniqueSlug callback is rebuilt and its effect issues a query
DebounceFire ==
    /\ TimerPending
    /\ debouncedSlug' = slug
    /\ checks' = checks \cup {slug}
    /\ UNCHANGED <<propVars, title, slug, icon, slugError, uploads, subs,
                   lastCheck, iconEvent>>

\* the slug error after watchSlugChanges got its answer for slug d
ErrorAfterCheck(d) == ~checkUniqueSlug(d, getSlugUniqueness(d))

\* a query of watchSlugChanges, issued for slug d, resolves
ResolveCheck(d) ==
    /\ d \in checks
    /\ checks' = checks \ {d}
    /\ slugError' = ErrorAfterCheck(d)
    /\ lastCheck' = d
    /\ UNCHANGED <<propVars, title, slug, icon, debouncedSlug, uploads, subs,
                   iconEvent>>

----------------------------------------------------------------------------
(* Icon upload *)

\* !file || file.length === 0
NoFile(f) == f \in {"null", "empty"}

\* handleChange without its early return
UploadsAfterChange_NoGuard(f) == uploads \cup {f}

\* the uploads in flight after handleChange(f)
UploadsAfterChange(f) == IF NoFile(f) THEN uploads ELSE uploads \cup {f}

\* the file input's onChange: handleChange(e.target.files), up to its fetch
SelectFile(f) ==
    /\ ShowsPicker
    /\ uploads' = UploadsAfterChange(f)
    /\ iconEvent' = IF NoFile(f) THEN "noFile" ELSE "file"
    /\ UNCHANGED <<propVars, title, slug, icon, debouncedSlug, slugError,
                   checks, subs, lastCheck>>

\* the icon field after the upload answered {url: u}
IconAfterUpload(u) == u

\* the upload of f answers {url: u}; handleChange stores it
UploadResponse(f, u) ==
    /\ f \in uploads
    /\ uploads' = uploads \ {f}
    /\ icon' = IconAfterUpload(u)
    /\ iconEvent' = "uploaded"
    /\ UNCHANGED <<propVars, title, slug, debouncedSlug, slugError, checks,
                   subs, lastCheck>>

\* the upload of f fails; handleChange rejects, nothing is stored
UploadFail(f) ==
    /\ f \in uploads
    /\ uploads' = uploads \ {f}
    /\ iconEvent' = "uploadFailed"
    /\ UNCHANGED <<propVars, title, slug, icon, debouncedSlug, slugError,
                   checks, subs, lastCheck>>

\* the icon field after "Remove" was clicked
IconAfterRemove == ""

\* the "Remove" button's onClick
Remove ==
    /\ ShowsPreview
    /\ icon' = IconAfterRemove
    /\ iconEvent' = "remove"
    /\ UNCHANGED <<propVars, title, slug, debouncedSlug, slugError, checks,
                   uploads, subs, lastCheck>>

----------------------------------------------------------------------------
(* Submission *)

\* A submission is the run of the form's onSubmit handler for one submit
\* event.  stage: "gate" while checkUniqueSlug()'s query is in flight (for
\* gateSlug, the debouncedSlug its closure captured), then "blocked",
\* "invalid" or "mutate" (the mutation is in flight with payload props), then
\* "saved" or "failed".  log: the remote mutations and the side effects the
\* submission has performed, in order.  formSlug (history): the slug field's
\* value at the submit event, kept while the gate is open.

\* the form's onSubmit, up to its await
Submit ==
    /\ Len(subs) < MaxSubmits
    /\ subs' = Append(subs, [stage |-> "gate", gateSlug |-> debouncedSlug,
                             formSlug |-> slug, props |-> EmptyProps,
                             log |-> <<>>])
    /\ UNCHANGED <<propVars, title, slug, icon, debouncedSlug, slugError,
                   checks, uploads, lastCheck, iconEvent>>

\* onSubmit without its branch on defaultValues
MutationCall_AlwaysCreate == "createPage"

\* the remote call onSubmit issues inside startTransition
MutationCall == IF defaultValues.present THEN "updatePage" ELSE "createPage"

\* the submission once the gate's query answered
AfterGate(sub) ==
    LET props == [title |-> title, slug |-> slug, icon |-> icon]
        done  == [sub EXCEPT !.gateSlug = <<>>, !.formSlug = <<>>]
    IN
    IF ~checkUniqueSlug(sub.gateSlug, getSlugUniqueness(sub.gateSlug))
    THEN [done EXCEPT !.stage = "blocked",
                      !.log = <<<<"toast", "unique-slug">>>>]
    ELSE IF ~SchemaValid(props)
         THEN [done EXCEPT !.stage = "invalid"]
         ELSE [done EXCEPT !.stage = "mutate", !.props = props,
                           !.log = <<<<MutationCall, "">>>>]

\* the gate's query resolves: toast, or form.handleSubmit(onSubmit)
GateResolve(i) ==
    /\ subs[i].stage = "gate"
    /\ subs' = [subs EXCEPT ![i] = AfterGate(subs[i])]
    /\ UNCHANGED <<propVars, title, slug, icon, debouncedSlug, slugError,
                   checks, uploads, lastCheck, iconEvent>>

\* onSubmit showing the toast before it replaces the query string
SuccessEffects_ToastFirst(id) ==
    <<<<"toast", "saved">>>>
    \o (IF defaultValues.present THEN <<>> ELSE <<<<"router.replace", id>>>>)
    \o (IF nextUrl # "" THEN <<<<"router.push", nextUrl>>>> ELSE <<>>)
    \o <<<<"router.refresh", "">>>>

\* what onSubmit does after the mutation resolved (with page id `id`)
SuccessEffects(id) ==
    (IF defaultValues.present THEN <<>> ELSE <<<<"router.replace", id>>>>)
    \o <<<<"toast", "saved">>>>
    \o (IF nextUrl # "" THEN <<<<"router.push", nextUrl>>>> ELSE <<>>)
    \o <<<<"router.refresh", "">>>>

\* a catch that also refreshes
FailureEffects_Refresh == <<<<"toast", "error">>, <<"router.refresh", "">>>>

\* what onSubmit's catch does
FailureEffects == <<<<"toast", "error">>>>

\* the submission once its mutation resolved
AfterResolve(sub, id) ==
    [sub EXCEPT !.stage = "saved", !.props = EmptyProps,
                !.log = sub.log \o SuccessEffects(id)]

\* the submission once its mutation threw
AfterReject(sub) ==
    [sub EXCEPT !.stage = "failed", !.props = EmptyProps,
                !.log = sub.log \o FailureEffects]

\* what the mutation can resolve with: createPage's page id (or no page)
MutationResults == IF defaultValues.present THEN {"void"} ELSE PageIds

MutationResolve(i, id) ==
    /\ subs[i].stage = "mutate"
    /\ subs' = [subs EXCEPT ![i] = AfterResolve(subs[i], id)]
    /\ UNCHANGED <<propVars, title, slug, icon, debouncedSlug, slugError,
                   checks, uploads, lastCheck, iconEvent>>

MutationReject(i) ==
    /\ subs[i].stage = "mutate"
    /\ subs' = [subs EXCEPT ![i] = AfterReject(subs[i])]
    /\ UNCHANGED <<propVars, title, slug, icon, debouncedSlug, slugError,
                   checks, uploads, lastCheck, iconEvent>>

----------------------------------------------------------------------------
(* Specifications *)

EditNext ==
    \/ \E t \in TitleInputs : SetTitle(t)
    \/ \E s \in SlugInputs : SetSlug(s)
    \/ DebounceFire

CheckNext ==
    \E d \in checks : ResolveCheck(d)

IconNext ==
    \/ \E f \in FileLists : SelectFile(f)
    \/ \E f \in uploads, u \in Urls : UploadResponse(f, u)
    \/ \E f \in uploads : UploadFail(f)
    \/ Remove

SubmitNext ==
    \/ Submit
    \/ \E i \in DOMAIN subs : GateResolve(i)
    \/ \E i \in DOMAIN subs, id \in MutationResults : MutationResolve(i, id)
    \/ \E i \in DOMAIN subs : MutationReject(i)

Next == EditNext \/ CheckNext \/ IconNext \/ SubmitNext

\* the whole component
Spec == Init /\ [][Next]_vars

\* the slug field, its debounce and its uniqueness check
SlugSpec == Init /\ [][EditNext \/ CheckNext]_vars

\* the icon field
IconSpec == Init /\ [][IconNext]_vars

\* submissions of a form whose slug is being edited
SlugEditNext ==
    \/ \E s \in SlugInputs : SetSlug(s)
    \/ DebounceFire

SubmitSpec == Init /\ [][SlugEditNext \/ SubmitNext]_vars

----------------------------------------------------------------------------
(* Properties *)

SlugUniverse == { <<>>, sAbc, sABc, sXyz }

SameLetter(a, b) ==
    \/ a = b
    \/ {a, b} \in { {"a", "A"}, {"b", "B"}, {"x", "X"} }

EqualIgnoringCase(s, t) ==
    /\ Len(s) = Len(t)
    /\ \A k \in 1..Len(s) : SameLetter(s[k], t[k])

\* d is the slug of the draft being edited
IsOriginalSlug(d) ==
    defaultValues.present /\ EqualIgnoringCase(d, defaultValues.slug)

IsMutationEntry(e) == e[1] \in {"createPage", "updatePage"}

MutationsOf(sub) == SelectSeq(sub.log, IsMutationEntry)

ExpectedMutation ==
    IF defaultValues.present THEN <<"updatePage", "">> ELSE <<"createPage", "">>

\* C1: a submission that passes the uniqueness gate with a schema-valid draft
\* goes on to the mutation, and every submission that did has issued exactly
\* one remote mutation: updatePage when defaultValues was supplied,
\* createPage otherwise; no other submission has issued any.
C1_ExactlyOneMutation ==
    [][\A i \in DOMAIN subs' :
         LET after == subs'[i] IN
         /\ ( /\ i \in DOMAIN subs
              /\ subs[i].stage = "gate"
              /\ after.stage # "gate"
              /\ (getSlugUniqueness(subs[i].gateSlug) \/ IsOriginalSlug(subs[i].gateSlug))
              /\ Len(slug) >= MinSlugLen )
            => after.stage = "mutate"
         /\ after.stage \in {"mutate", "saved", "failed"}
            => MutationsOf(after) = <<ExpectedMutation>>
         /\ after.stage \in {"gate", "blocked", "invalid"}
            => MutationsOf(after) = <<>>
      ]_vars

\* one create settled and a second one in flight
C1_Witness ==
    /\ ~defaultValues.present
    /\ Len(subs) = 2
    /\ subs[1].stage = "saved"
    /\ subs[2].stage = "mutate"

\* C2 (as claimed): when the gate of a submission answers and the slug in the
\* form, unchanged since the submit event, is reported not unique by the
\* remote and is not the original slug, the submission is blocked with the
\* toast "unique-slug" and calls no mutation.
C2_GateChecksFormSlug ==
    [][\A i \in DOMAIN subs :
         ( /\ subs[i].stage = "gate"
           /\ subs'[i].stage # "gate"
           /\ slug = subs[i].formSlug
           /\ ~getSlugUniqueness(slug)
           /\ ~IsOriginalSlug(slug) )
         => /\ subs'[i].stage = "blocked"
            /\ subs'[i].log = <<<<"toast", "unique-slug">>>>
      ]_vars

\* C3: checkUniqueSlug returns true for both remote answers when the slug
\* equals the original slug ignoring case, and the remote's answer otherwise;
\* the slug error is the negation of that for the query resolved last.
C3_SelfMatchExemption ==
    /\ \A d \in SlugUniverse, r \in BOOLEAN :
          checkUniqueSlug(d, r) = (IF IsOriginalSlug(d) THEN TRUE ELSE r)
    /\ lastCheck # NoCheck =>
          slugError = ~(IF IsOriginalSlug(lastCheck) THEN TRUE
                        ELSE getSlugUniqueness(lastCheck))

\* the query for the original slug in another case resolved, the remote
\* reporting it taken
C3_Witness ==
    /\ defaultValues.present
    /\ lastCheck = sABc
    /\ lastCheck # defaultValues.slug
    /\ ~getSlugUniqueness(lastCheck)
    /\ ~slugError

\* C4: mounted without a pre-existing title, every change of the title to T
\* leaves the slug field equal to slugify(T).
C4_TitleDerivesSlug ==
    [][(~defaultValues.present \/ defaultValues.title = <<>>) /\ title' # title
         => slug' = slugify(title')]_vars

\* the slug supplied in defaultValues and a slug typed by hand were overwritten
C4_Witness ==
    /\ defaultValues.present
    /\ defaultValues.title = <<>>
    /\ defaultValues.slug = sAbc
    /\ sABc \in checks
    /\ title = tXyz
    /\ slug = sXyz

\* C5: mounted with a non-empty title, no title edit changes the slug field;
\* the slug changes only through edits of the slug field.
C5_TitleEditsKeepSlug ==
    [][(defaultValues.present /\ defaultValues.title # <<>>)
         => /\ title' # title => slug' = slug
            /\ slug' # slug => \E s \in SlugInputs : SetSlug(s)]_vars

C5_Witness ==
    /\ defaultValues.present
    /\ defaultValues.title # <<>>
    /\ title = tXyz
    /\ slug = defaultValues.slug
    /\ debouncedSlug = defaultValues.slug

\* C6 (as claimed): once the slug field has settled at the debounced value and
\* the query for it has resolved, the slug error is set iff the remote
\* reported that slug not unique and it is not the original slug.
C6_SettledErrorIsCurrent ==
    (slug = debouncedSlug /\ debouncedSlug \notin checks)
       => slugError = (~getSlugUniqueness(debouncedSlug) /\ ~IsOriginalSlug(debouncedSlug))

\* C7: an upload answering {url: U} sets the icon field to U and shows the
\* preview, not the picker; Remove empties the icon field and shows the
\* picker; selecting no file starts no upload and leaves the icon unchanged.
C7_IconField ==
    [][/\ \A f \in uploads, u \in Urls :
            UploadResponse(f, u) => (icon' = u /\ ShowsPreview' /\ ~ShowsPicker')
       /\ Remove => (icon' = "" /\ ShowsPicker' /\ ~ShowsPreview')
       /\ \A f \in {"null", "empty"} :
            SelectFile(f) => (uploads' = uploads /\ icon' = icon)
      ]_vars

\* an uploaded icon was removed again
C7_Witness ==
    /\ ~defaultValues.present
    /\ iconEvent = "remove"
    /\ icon = ""
    /\ ShowsPicker

\* C8: a saved submission performed, after its mutation and in this order:
\* router.replace with the new id (create only), toast "saved", router.push
\* (only with nextUrl), router.refresh; nothing before the mutation resolved;
\* an update never replaces the query string.
C8_SuccessOrder ==
    \A i \in DOMAIN subs :
       LET l == subs[i].log IN
       /\ subs[i].stage = "mutate" => l = <<ExpectedMutation>>
       /\ subs[i].stage = "saved" =>
            \E id \in PageIds :
               l = <<ExpectedMutation>>
                   \o (IF defaultValues.present THEN <<>>
                       ELSE <<<<"router.replace", id>>>>)
                   \o <<<<"toast", "saved">>>>
                   \o (IF nextUrl = "" THEN <<>> ELSE <<<<"router.push", nextUrl>>>>)
                   \o <<<<"router.refresh", "">>>>
       /\ defaultValues.present =>
            \A k \in 1..Len(l) : l[k][1] # "router.replace"

\* a create with nextUrl was saved
C8_Witness ==
    /\ ~defaultValues.present
    /\ nextUrl # ""
    /\ \E i \in DOMAIN subs :
          /\ subs[i].stage = "saved"
          /\ Len(subs[i].log) = 5
          /\ subs[i].log[2] = <<"router.replace", "7">>

\* C9: when the mutation of a submission throws, the submission adds the
\* toast "error" and nothing else to what it did, the draft's fields stay as
\* typed, and the submission no longer keeps the form pending.
C9_FailureHandling ==
    [][\A i \in DOMAIN subs :
         (subs[i].stage = "mutate" /\ subs'[i].stage \notin {"mutate", "saved"})
         => /\ subs'[i].stage = "failed"
            /\ subs'[i].log = <<ExpectedMutation, <<"toast", "error">>>>
            /\ title' = title /\ slug' = slug /\ icon' = icon
            /\ isPending' = (\E j \in DOMAIN subs \ {i} : subs[j].stage = "mutate")
      ]_vars

\* a submission failed, the form is idle again and holds the typed slug
C9_Witness ==
    /\ \E i \in DOMAIN subs : subs[i].stage = "failed"
    /\ ~isPending
    /\ slug = sXyz

\* C10 (as claimed): a query issued for an older debounced slug that resolves
\* after the debounced slug changed neither sets nor clears the slug error.
C10_StaleResultIgnored ==
    [][\A d \in checks :
         (d # debouncedSlug /\ ResolveCheck(d)) => slugError' = slugError]_vars

====
